---- MODULE Spec2Model ----
(***************************************************************************)
(* Parabolic-band semiconductor model of sbe/semiconductors.py:            *)
(* BandStructure3D / BandStructureQW (band energies, dipole, density of    *)
(* states, Fermi levels with a per-temperature cache), the single-subband  *)
(* DOS kernel and the Fermi-Dirac function.                                *)
(*                                                                         *)
(* Numbers.  Energies are integers in units of 1/8 eV; quantities the      *)
(* source keeps in Joule are the eV value times ConstE.  Floating-point    *)
(* values that can be special are records F = [c, v] with c one of "fin",  *)
(* "nan", "inf" (v the sign for "inf"), so that NaN and infinity propagate *)
(* through the arithmetic as IEEE-754 does.                                *)
(***************************************************************************)
EXTENDS Integers, Sequences, FiniteSets, TLC

----------------------------------------------------------------------------
(* Bounds of the model *)

MaxEdgesC == 2      \* conduction edges supplied: 1..MaxEdgesC
MaxEdgesV == 4      \* valence edges supplied: 1..MaxEdgesV
MaxBase   == 0      \* lowest supplied edge is 0..MaxBase (times ConstE)
MaxIdx    == 4      \* band indices asked for: 0..MaxIdx
MaxK      == 1      \* wave numbers 0..MaxK
MaxTemp   == 2      \* temperatures 1..MaxTemp (units of one energy unit / kb)

----------------------------------------------------------------------------
(* Physical constants and material parameters, in model units *)

ConstE    == 2      \* const.e: Joule per eV
HSq       == 8      \* const.h ** 2
M0        == 11     \* const.m0
EgNominal == 12     \* 1.519 eV
GaAs_me   == 1      \* 0.0665 m0
GaAs_mhh  == 4      \* m0 / (gamma1 - 2 gamma)
GaAs_mlh  == 1      \* m0 / (gamma1 + 2 gamma)
GaAs_mso  == 2      \* 0.172 m0
GaAs_eP   == 29     \* 28.8 eV
Tc_m      == 22     \* 2 m0 (both Tc.me and Tc.mh)

Materials == {"GaAs", "Tc"}

\* Attributes each material class defines.
HasAttr(mat, a) ==
    IF mat = "GaAs"
    THEN a \in {"Eg", "me", "mhh", "mlh", "mso", "mh", "e_P"}
    ELSE a \in {"Eg", "me", "mh"}

\* GaAs() and Tc() at their default arguments: Eg in Joule.
Mat_Eg(mat) == EgNominal * ConstE

Mat_me(mat) == IF mat = "GaAs" THEN GaAs_me ELSE Tc_m

\* GaAs.mh is the tuple (mhh, mlh, mso); Tc.mh is a scalar.
GaAs_mh == <<GaAs_mhh, GaAs_mlh, GaAs_mso>>

----------------------------------------------------------------------------
(* Small helpers *)

RECURSIVE IsqrtFrom(_, _)
IsqrtFrom(n, r) == IF (r + 1) * (r + 1) > n THEN r ELSE IsqrtFrom(n, r + 1)

\* floor of the square root of n >= 0
Isqrt(n) == IsqrtFrom(n, 0)

RECURSIVE Pow2(_)
Pow2(n) == IF n <= 0 THEN 1 ELSE 2 * Pow2(n - 1)

RECURSIVE SeqMin(_)
SeqMin(s) == IF Len(s) = 1 THEN s[1]
             ELSE LET m == SeqMin(Tail(s)) IN IF s[1] < m THEN s[1] ELSE m

\* Results of a call: a value, None, or a raised exception.
Ok(v)      == [kind |-> "ok", val |-> v]
NoneVal    == [kind |-> "none"]
Raise(exc) == [kind |-> "raise", exc |-> exc]

BandIndexError == "ValueError: Band index exceeds maximal value"

\* A wave number argument: a Python scalar or a numpy array.
Scalar(x) == [arr |-> FALSE, v |-> <<x>>]
Array(s)  == [arr |-> TRUE, v |-> s]


----------------------------------------------------------------------------
(* The model object *)

VARIABLES
    self,      \* the band-structure model: cls, dim, mat, edges_c, edges_v,
               \* n_sb_e, n_sb_h and the cache ef
    kwargs,    \* the edges as supplied to the constructor
    ret,       \* per caller, the call it made and what it returned or raised
    integ,     \* per temperature, how many times the integration step started
    queried,   \* temperatures get_Fermi_levels was called with
    raced,     \* a get_Fermi_levels call began while another was in progress
    pc,        \* per caller, its position: idle, in get_Fermi_levels, done
    frame      \* per caller, the arguments of its get_Fermi_levels call

vars == <<self, kwargs, ret, integ, queried, raced, pc, frame>>

Temps == 1..MaxTemp

\* The cache self.ef maps a temperature to a dict with the keys "elec" and
\* "holes".  A temperature that is no key maps to Absent; a key of the inner
\* dict that is missing holds NoInterp.
NoInterp   == [id |-> 0, x |-> <<>>, y |-> <<>>]
Absent     == [present |-> FALSE, elec |-> NoInterp, holes |-> NoInterp]
EmptyEntry == [present |-> TRUE, elec |-> NoInterp, holes |-> NoInterp]
HasKey(entry, key) == entry[key].id # 0

\* The identity of the interpolant object built for a key by the run-th
\* integration at a temperature: distinct objects have distinct identities.
InterpId(tempr, run, key) ==
    2 * ((run - 1) * MaxTemp + tempr) - (IF key = "elec" THEN 1 ELSE 0)

\* BandStructure3D.__init__ / BandStructureQW.__init__
Construct(cls, mat, ec, ev) ==
    [cls     |-> cls,
     dim     |-> IF cls = "BandStructureQW" THEN 2 ELSE 3,
     mat     |-> mat,
     edges_c |-> [i \in 1..Len(ec) |-> ec[i] + Mat_Eg(mat)],
     edges_v |-> ev,
     n_sb_e  |-> Len(ec),
     n_sb_h  |-> Len(ev),
     ef      |-> [t \in Temps |-> Absent]]

\* The edge arrays the model is built with: n edges rising (conduction) or
\* falling (valence) from a base, all multiples of ConstE.
EdgesUp(n, b)   == [i \in 1..n |-> ConstE * (b + i - 1)]
EdgesDown(n, b) == [i \in 1..n |-> 0 - ConstE * (b + i - 1)]

Classes == {"BandStructure3D", "BandStructureQW"}

----------------------------------------------------------------------------
(* Band energies *)

Kinetic(x, m2) == (HSq * x * x) \div m2

\* edge + sg * h**2 * k**2 / m2 on every element of k, as numpy broadcasts
Parabola(k, edge, sg, m2) == [i \in 1..Len(k.v) |-> edge + sg * Kinetic(k.v[i], m2)]

\* _cond_band with the index test off by one (j > n_sb_e): the index equal
\* to the number of edges reaches the array and numpy raises IndexError
cond_band_off_by_one(s, j, k) ==
    IF j > s.n_sb_e THEN Raise(BandIndexError)
    ELSE IF j = s.n_sb_e THEN Raise("IndexError")
    ELSE Ok(Parabola(k, s.edges_c[j + 1], 1, 2 * Mat_me(s.mat)))

\* BandStructure3D._cond_band and BandStructureQW._cond_band (identical)
cond_band(s, j, k) ==
    IF j >= s.n_sb_e THEN Raise(BandIndexError)
    ELSE Ok(Parabola(k, s.edges_c[j + 1], 1, 2 * Mat_me(s.mat)))

\* BandStructure3D._val_band
val_band_3D(s, j, k) ==
    IF j >= s.n_sb_h THEN Raise(BandIndexError)
    ELSE IF j = 0 THEN
        IF HasAttr(s.mat, "mhh")
        THEN Ok(Parabola(k, s.edges_v[j + 1], 0 - 1, 2 * GaAs_mhh))
        ELSE Raise("AttributeError")
    ELSE IF j = 1 THEN
        IF HasAttr(s.mat, "mlh")
        THEN Ok(Parabola(k, s.edges_v[j + 1], 0 - 1, 2 * GaAs_mlh))
        ELSE Raise("AttributeError")
    ELSE IF j = 2 THEN
        IF HasAttr(s.mat, "mso")
        THEN Ok(Parabola(k, s.edges_v[j + 1], 0 - 1, 2 * GaAs_mso))
        ELSE Raise("AttributeError")
    ELSE NoneVal

\* BandStructureQW._val_band.  With GaAs, 2 * mat.mh is the tuple repeated
\* twice: a Python scalar cannot be divided by it, an array is broadcast
\* against its six elements.
val_band_QW(s, j, k) ==
    IF j >= s.n_sb_e THEN Raise(BandIndexError)
    ELSE IF j >= s.n_sb_h THEN Raise("IndexError")
    ELSE IF s.mat = "Tc"
    THEN Ok(Parabola(k, s.edges_v[j + 1], 0 - 1, 2 * Tc_m))
    ELSE IF ~k.arr THEN Raise("TypeError")
    ELSE IF Len(k.v) \notin {1, 6} THEN Raise("ValueError: operands could not be broadcast")
    ELSE LET mh2 == GaAs_mh \o GaAs_mh
         IN Ok([i \in 1..6 |->
                 s.edges_v[j + 1]
                 - Kinetic(k.v[IF Len(k.v) = 1 THEN 1 ELSE i], mh2[i])])

val_band(s, j, k) ==
    IF s.cls = "BandStructureQW" THEN val_band_QW(s, j, k) ELSE val_band_3D(s, j, k)

----------------------------------------------------------------------------
(* Dipole matrix elements and the optical-transition bundle *)

\* sqrt(const.e * e_P * const.h / const.m0 * const.h / 2)
DipoleP == Isqrt((ConstE * GaAs_eP * HSq) \div (2 * M0))

\* BandStructure3D._dipole
dipole_3D(s, j1, j2, k) ==
    IF j1 >= s.n_sb_h THEN Raise(BandIndexError)
    ELSE IF j2 >= s.n_sb_e THEN Raise(BandIndexError)
    ELSE IF ~HasAttr(s.mat, "e_P") THEN Raise("AttributeError")
    ELSE LET c == cond_band(s, j2, k)
             v == val_band(s, j1, k)
         IN IF c.kind = "raise" THEN c
            ELSE IF v.kind = "raise" THEN v
            ELSE IF v.kind = "none" THEN Raise("TypeError")
            ELSE Ok([i \in 1..Len(c.val) |->
                      (DipoleP * Mat_Eg(s.mat)) \div (c.val[i] - v.val[i])])

\* BandStructureQW._dipole: p is computed (from mat.e_P) before the index
\* checks; the result is np.ones(k.shape).
dipole_QW(s, j1, j2, k) ==
    IF ~HasAttr(s.mat, "e_P") THEN Raise("AttributeError")
    ELSE IF j1 >= s.n_sb_h THEN Raise(BandIndexError)
    ELSE IF j2 >= s.n_sb_e THEN Raise(BandIndexError)
    ELSE IF ~k.arr THEN Raise("AttributeError")
    ELSE Ok([i \in 1..Len(k.v) |-> 1])

dipole(s, j1, j2, k) ==
    IF s.cls = "BandStructureQW" THEN dipole_QW(s, j1, j2, k) ELSE dipole_3D(s, j1, j2, k)

\* get_optical_transition_data: the tuple (kk, E_v, E_c, dipole), its
\* elements evaluated left to right; the first exception propagates.
get_optical_transition_data(s, kk, j1, j2) ==
    LET v == val_band(s, j1, kk)
        c == cond_band(s, j2, kk)
        d == dipole(s, j1, j2, kk)
    IN IF v.kind = "raise" THEN v
       ELSE IF c.kind = "raise" THEN c
       ELSE IF d.kind = "raise" THEN d
       ELSE Ok(<<kk, v, c.val, d.val>>)

----------------------------------------------------------------------------
(* Floating-point values with NaN and infinity *)

MaxFloat == 1000000000   \* the largest finite float, what nan_to_num gives for inf

Fin(n) == [c |-> "fin", v |-> n]
NaN    == [c |-> "nan", v |-> 0]
Inf(sg) == [c |-> "inf", v |-> sg]

Sgn(n) == IF n > 0 THEN 1 ELSE IF n < 0 THEN 0 - 1 ELSE 0

IsFinite(a) == a.c = "fin"

FMul(a, b) ==
    IF a.c = "nan" \/ b.c = "nan" THEN NaN
    ELSE IF a.c = "fin" /\ b.c = "fin" THEN Fin(a.v * b.v)
    ELSE IF Sgn(a.v) * Sgn(b.v) = 0 THEN NaN      \* inf * 0
    ELSE Inf(Sgn(a.v) * Sgn(b.v))

FAdd(a, b) ==
    IF a.c = "nan" \/ b.c = "nan" THEN NaN
    ELSE IF a.c = "fin" /\ b.c = "fin" THEN Fin(a.v + b.v)
    ELSE IF a.c = "inf" /\ b.c = "inf" THEN (IF a.v = b.v THEN a ELSE NaN)
    ELSE IF a.c = "inf" THEN a ELSE b

FNeg(a) == IF a.c = "nan" THEN a ELSE [c |-> a.c, v |-> 0 - a.v]

\* a / b for finite a, b; the quotient of finite values is kept in units of
\* 1 / scale and rounded down.
FDivScaled(a, b, scale) ==
    IF b = 0 THEN (IF a = 0 THEN NaN ELSE Inf(Sgn(a)))
    ELSE Fin((a * scale) \div b)

\* a >= b as floats: any comparison with NaN is false.
FGeq(a, b) ==
    IF a.c = "nan" \/ b.c = "nan" THEN FALSE
    ELSE IF a.c = "fin" /\ b.c = "fin" THEN a.v >= b.v
    ELSE IF a.c = "inf" THEN (a.v = 1 \/ (b.c = "inf" /\ b.v = 0 - 1))
    ELSE b.v = 0 - 1

\* the kernel without its guard: NaN and infinity are passed on
nan_to_num_missing(a) == a

\* numpy.nan_to_num
nan_to_num(a) ==
    IF a.c = "nan" THEN Fin(0)
    ELSE IF a.c = "inf" THEN Fin(a.v * MaxFloat)
    ELSE a

----------------------------------------------------------------------------
(* Density of states *)

InvSqrtOne == 12    \* the value 1.0 of the 1-D power term x ** -0.5

\* omega_D / (2 pi) ** dim, in units of 1 / (12 pi ** 2): 2, 2 pi, 4 pi over
\* 2 pi, 4 pi ** 2, 8 pi ** 3
OmegaPref(dim) == IF dim = 1 THEN 6 ELSE IF dim = 2 THEN 3 ELSE 1

\* (2 * meff / h / h) ** (dim / 2)
MassPow(meff, dim) ==
    LET b == 2 * meff
    IN IF dim = 1 THEN Isqrt(b) ELSE IF dim = 2 THEN b ELSE b * Isqrt(b)

\* (energy * alpha) ** ((dim - 2) / 2): NaN for a negative base and a
\* fractional exponent, infinite for 0 ** -0.5, 1.0 for any base ** 0.
EnergyPow(x, dim) ==
    IF dim = 2 THEN Fin(1)
    ELSE IF x < 0 THEN NaN
    ELSE IF dim = 1 THEN FDivScaled(InvSqrtOne, Isqrt(x), 1)
    ELSE Fin(Isqrt(x))

\* _dos_single_subband on one energy.  The factor 0.5 of (sign + 1) * 0.5 is
\* kept in the unit: values are in halves.
dos_kernel(e1, meff, dim, units) ==
    LET alpha == IF units = "eV" THEN ConstE ELSE 1
    IN nan_to_num(FMul(FMul(Fin(OmegaPref(dim) * MassPow(meff, dim)),
                            EnergyPow(e1 * alpha, dim)),
                       Fin(Sgn(e1) + 1)))

\* _dos_single_subband on an energy array: zeros(energy.shape) += the kernel
dos_single_subband(energy, meff, dim, units) ==
    [i \in 1..Len(energy) |-> FAdd(Fin(0), dos_kernel(energy[i], meff, dim, units))]

RECURSIVE DosSum(_, _, _, _)
\* the loop of dos over subbands j = from .. n-1, adding to acc
DosSum(acc, terms, j, n) ==
    IF j > n THEN acc
    ELSE DosSum([i \in 1..Len(acc) |-> FAdd(acc[i], terms[j][i])], terms, j + 1, n)

\* the branch of dos for carriers == "electrons": every conduction subband
\* with the mass mat.me
dos_electrons(s, energy) ==
    LET zeros == [i \in 1..Len(energy) |-> Fin(0)]
    IN Ok(DosSum(zeros,
                 [j \in 1..s.n_sb_e |->
                    dos_single_subband(
                       [i \in 1..Len(energy) |-> energy[i] - (s.edges_c[j] \div ConstE)],
                       Mat_me(s.mat), s.dim, "eV")],
                 1, s.n_sb_e))

\* the else branch of dos: every valence subband j with the mass mat.mh[j].
\* Tc.mh is a float and cannot be indexed; GaAs.mh has three elements.
dos_holes(s, energy) ==
    LET zeros == [i \in 1..Len(energy) |-> Fin(0)]
    IN IF s.n_sb_h = 0 THEN Ok(zeros)
       ELSE IF s.mat = "Tc" THEN Raise("TypeError")
       ELSE IF s.n_sb_h > Len(GaAs_mh) THEN Raise("IndexError")
       ELSE Ok(DosSum(zeros,
                      [j \in 1..s.n_sb_h |->
                         dos_single_subband(
                            [i \in 1..Len(energy) |-> energy[i] + (s.edges_v[j] \div ConstE)],
                            GaAs_mh[j], s.dim, "eV")],
                      1, s.n_sb_h))

\* what dos would do if every selector but "holes" took the electron branch
dos_unknown_as_electrons(s, energy, carriers) ==
    IF carriers = "holes" THEN dos_holes(s, energy) ELSE dos_electrons(s, energy)

\* BandStructure3D.dos
dos(s, energy, carriers) ==
    IF carriers = "electrons" THEN dos_electrons(s, energy) ELSE dos_holes(s, energy)

----------------------------------------------------------------------------
(* Fermi-Dirac function *)

Kb     == 1     \* Boltzmann constant: energy units per temperature unit
ExpMax == 7     \* exp(x) overflows to infinity for x > ExpMax, and
                \* exp(-x) underflows to 0
FdOne  == 512   \* the value 1.0 of an occupation
NProbeE  == 5   \* electron probe Fermi levels (50 in the source)
NEnergyE == 6   \* electron energy grid points (3000 in the source)
NProbeH  == 5   \* hole probe Fermi levels (550 in the source)
NEnergyH == 11  \* hole energy grid points (350 in the source)

\* fd(energy, ef, tempr) on one energy, tempr > 0, with the exponential taken
\* to base 2 on the integer part of its argument and the quotient rounded
\* down.
fd(energy1, ef1, tempr) ==
    LET q == (energy1 - ef1) \div (Kb * tempr)
    IN IF q > ExpMax THEN Fin(0)                        \* 1 / (1 + inf)
       ELSE IF q < 0 - ExpMax THEN Fin(FdOne)           \* 1 / (1 + 0)
       ELSE IF q >= 0 THEN Fin(FdOne \div (1 + Pow2(q)))
       ELSE Fin((FdOne * Pow2(0 - q)) \div (1 + Pow2(0 - q)))

----------------------------------------------------------------------------
(* Integration and interpolation *)

\* numpy.linspace(a, b, n)
linspace(a, b, n) == [i \in 1..n |-> a + ((i - 1) * (b - a)) \div (n - 1)]

RECURSIVE TrapzFrom(_, _, _)
TrapzFrom(y, x, i) ==
    IF i >= Len(x) THEN Fin(0)
    ELSE FAdd(FMul(Fin(x[i + 1] - x[i]), FAdd(y[i], y[i + 1])), TrapzFrom(y, x, i + 1))

\* numpy.trapz(y, x=x): sum of dx * (y[i] + y[i+1]) / 2
trapz(y, x) ==
    LET t == TrapzFrom(y, x, 1) IN IF t.c = "fin" THEN Fin(t.v \div 2) ELSE t

\* the carrier concentration at each probe Fermi level (the loops at
\* lines 204-206 and 213-215), given the density of states on the grid
Concentrations(probe_fermi, energy, d, tempr) ==
    [jj \in 1..Len(probe_fermi) |->
        trapz([i \in 1..Len(energy) |-> FMul(fd(energy[i], probe_fermi[jj], tempr), d[i])],
              [i \in 1..Len(energy) |-> energy[i] * ConstE])]

RECURSIVE InsertSorted(_, _)
\* insert pair p after every pair whose x is <= p.x (a stable sort)
InsertSorted(sorted, p) ==
    IF sorted = <<>> THEN <<p>>
    ELSE IF sorted[Len(sorted)].x <= p.x THEN Append(sorted, p)
    ELSE Append(InsertSorted(SubSeq(sorted, 1, Len(sorted) - 1), p), sorted[Len(sorted)])

RECURSIVE SortPairs(_, _)
SortPairs(pairs, i) ==
    IF i = 0 THEN <<>> ELSE InsertSorted(SortPairs(pairs, i - 1), pairs[i])

\* interpolate.interp1d(x, y, fill_value="extrapolate"): a new object holding
\* the points sorted by x.  The concentrations are finite here.
interp1d(id, x, y) ==
    LET pts == SortPairs([i \in 1..Len(x) |-> [x |-> x[i].v, y |-> y[i]]], Len(x))
    IN [id |-> id,
        x  |-> [i \in 1..Len(x) |-> pts[i].x],
        y  |-> [i \in 1..Len(x) |-> pts[i].y]]

SlopeOne == 100     \* the value 1.0 of an interpolated Fermi level

\* numpy.searchsorted(x, v): the number of elements of x below v
searchsorted(x, v) == Cardinality({i \in 1..Len(x) : x[i] < v})

\* interp1d._call_linear at x_new: the segment is found by searchsorted and
\* clipped to the array, slope = (y_hi - y_lo) / (x_hi - x_lo),
\* y_new = slope * (x_new - x_lo) + y_lo.  A finite slope is kept as the
\* exact quotient until the product is rounded; a zero x_hi - x_lo makes it
\* infinite or NaN.
interp_call(f, x_new) ==
    LET n   == Len(f.x)
        idx == searchsorted(f.x, x_new)
        lo  == IF idx < 1 THEN 1 ELSE IF idx > n - 1 THEN n - 1 ELSE idx
        hi  == lo + 1
        dy  == f.y[hi] - f.y[lo]
        dx  == f.x[hi] - f.x[lo]
    IN IF dx = 0
       THEN FAdd(FMul(FDivScaled(dy, dx, SlopeOne), Fin(x_new - f.x[lo])),
                 Fin(f.y[lo] * SlopeOne))
       ELSE Fin((dy * SlopeOne * (x_new - f.x[lo])) \div dx + f.y[lo] * SlopeOne)

----------------------------------------------------------------------------
(* get_Fermi_levels, statement by statement *)

\* line 197: np.min(self.edges_c) / const.e
Cbb(s) == SeqMin(s.edges_c) \div ConstE
\* line 198: np.min(-self.edges_v) / const.e
Vbt(s) == SeqMin([i \in 1..Len(s.edges_v) |-> 0 - s.edges_v[i]]) \div ConstE

\* get_Fermi_levels without the test of the cache
NotCached_always(s, tempr) == TRUE

\* line 195: tempr not in self.ef
NotCached(s, tempr) == ~s.ef[tempr].present

\* line 200: self.ef[tempr] = {}
InsertEmpty(s, tempr) == [s EXCEPT !.ef[tempr] = EmptyEntry]

\* lines 201-208: the electron interpolant (1.5 eV = 12, 0.5 eV = 4, 5 eV = 40)
ElecInterp(s, tempr, run) ==
    LET cbb         == Cbb(s)
        probe_fermi == linspace((Mat_Eg(s.mat) \div ConstE) \div 2, cbb + 12, NProbeE)
        energy      == linspace(cbb - 4, cbb + 40, NEnergyE)
        d           == dos(s, energy, "electrons")
    IN IF d.kind = "raise" THEN d
       ELSE Ok(interp1d(InterpId(tempr, run, "elec"),
                        Concentrations(probe_fermi, energy, d.val, tempr), probe_fermi))

\* lines 210-217: the hole interpolant (1.0 eV = 8, 10 eV = 80)
HolesInterp(s, tempr, run) ==
    LET vbt         == Vbt(s)
        probe_fermi == linspace(0 - ((Mat_Eg(s.mat) \div ConstE) \div 2), vbt + 8, NProbeH)
        energy      == linspace(vbt, vbt + 80, NEnergyH)
        d           == dos(s, energy, "holes")
    IN IF d.kind = "raise" THEN d
       ELSE Ok(interp1d(InterpId(tempr, run, "holes"),
                        Concentrations(probe_fermi, energy, d.val, tempr), probe_fermi))

\* lines 208 and 217: self.ef[tempr][key] = interpolant
StoreInterp(s, tempr, key, f) == [s EXCEPT !.ef[tempr][key] = f]

\* line 219: ef_h = self.ef[tempr]["holes"](dens), the value and the
\* interpolant object that gave it
EvalHoles(s, tempr, dens) ==
    LET entry == s.ef[tempr]
    IN IF ~HasKey(entry, "holes") THEN Raise("KeyError: holes")
       ELSE Ok([v |-> interp_call(entry.holes, dens), id |-> entry.holes.id])

\* line 220: ef_el = self.ef[tempr]["elec"](dens)
EvalElec(s, tempr, dens) ==
    LET entry == s.ef[tempr]
    IN IF ~HasKey(entry, "elec") THEN Raise("KeyError: elec")
       ELSE Ok([v |-> interp_call(entry.elec, dens), id |-> entry.elec.id])

\* line 222: both levels shifted back to the band edges, in Joule
ShiftBack(s, h, e) ==
    LET minv == SeqMin([i \in 1..Len(s.edges_v) |-> 0 - s.edges_v[i]])
        minc == SeqMin(s.edges_c)
    IN Ok([holes |-> FMul(FAdd(FNeg(h.v), Fin(0 - minv * SlopeOne)), Fin(ConstE)),
           elec  |-> FMul(FAdd(e.v, Fin(minc * SlopeOne)), Fin(ConstE)),
           used  |-> <<h.id, e.id>>])

\* lines 219-222 run without interruption
EvalFermi(s, tempr, dens) ==
    LET h == EvalHoles(s, tempr, dens)
    IN IF h.kind = "raise" THEN h
       ELSE LET e == EvalElec(s, tempr, dens)
            IN IF e.kind = "raise" THEN e ELSE ShiftBack(s, h.val, e.val)

\* the body of the if at line 195, run to its end or to the first exception:
\* the model afterwards and the exception, if any
BuildEntry(s, tempr, run) ==
    LET s1 == InsertEmpty(s, tempr)
        fe == ElecInterp(s1, tempr, run)
    IN IF fe.kind = "raise" THEN [s |-> s1, exc |-> fe]
       ELSE LET s2 == StoreInterp(s1, tempr, "elec", fe.val)
                fh == HolesInterp(s2, tempr, run)
            IN IF fh.kind = "raise" THEN [s |-> s2, exc |-> fh]
               ELSE [s |-> StoreInterp(s2, tempr, "holes", fh.val), exc |-> NoneVal]

\* get_Fermi_levels(tempr, dens) run without interruption: the model
\* afterwards, the result, and whether the integration step ran
get_Fermi_levels(s, tempr, dens, run) ==
    IF NotCached(s, tempr)
    THEN LET b == BuildEntry(s, tempr, run)
         IN [s   |-> b.s,
             out |-> IF b.exc.kind = "raise" THEN b.exc ELSE EvalFermi(b.s, tempr, dens),
             ran |-> TRUE]
    ELSE [s |-> s, out |-> EvalFermi(s, tempr, dens), ran |-> FALSE]

----------------------------------------------------------------------------
(* Callers and the arguments they pass *)

NCallers  == 2       \* concurrent callers of one model
MaxDens   == 3       \* densities 0, DensUnit, .., MaxDens * DensUnit
DensUnit  == 50000
MaxDosE   == 3       \* DOS energies -EUnit, 0, .., MaxDosE * EUnit
EUnit     == 7
MaxMeff   == 3       \* effective masses 1..MaxMeff passed to the DOS kernel

Callers    == 1..NCallers
\* the caller of the single-threaded runs: the first one
MainCaller == CHOOSE c \in Callers : \A o \in Callers : c <= o

BandIdx == 0..MaxIdx
KArgs   == {Scalar(x) : x \in 0..MaxK} \cup {Array(<<0>>), Array(<<0, 1>>)}
Dens    == {d * DensUnit : d \in 0..MaxDens}
EnergyArrays == {<<e * EUnit>> : e \in (0 - 1)..MaxDosE}
                \cup {<<e * EUnit, e * EUnit + 3>> : e \in (0 - 1)..MaxDosE}
Selectors == {"electrons", "holes", "hole", ""}
KernelEnergies == {<<e>> : e \in (0 - 2)..2}
                  \cup {<<e1, e2>> : e1 \in (0 - 2)..2, e2 \in (0 - 2)..2}
Dims  == {1, 2, 3}
Units == {"eV", "J"}

NoCall    == [op |-> "none"]
NoLevel   == [v |-> Fin(0), id |-> 0]
IdleFrame == [tempr |-> 0, dens |-> 0, run |-> 0, hit |-> FALSE, ef_h |-> NoLevel]

\* the state after construction with the given keyword arguments
InitWith(cls, mat, ec, ev) ==
    /\ self = Construct(cls, mat, ec, ev)
    /\ kwargs = [material |-> mat, edges_c |-> ec, edges_v |-> ev]
    /\ ret = [c \in Callers |-> NoCall]
    /\ integ = [t \in Temps |-> 0]
    /\ queried = {}
    /\ raced = FALSE
    /\ pc = [c \in Callers |-> "idle"]
    /\ frame = [c \in Callers |-> IdleFrame]

Init ==
    \E cls \in Classes, mat \in Materials, nc \in 1..MaxEdgesC, nv \in 1..MaxEdgesV,
       b \in 0..MaxBase :
        InitWith(cls, mat, EdgesUp(nc, b), EdgesDown(nv, b))

\* a call that returns or raises at once and leaves the model alone
Query(c, call) ==
    /\ pc[c] = "idle"
    /\ ret' = [ret EXCEPT ![c] = call]
    /\ pc' = [pc EXCEPT ![c] = "done"]
    /\ UNCHANGED <<self, kwargs, integ, queried, raced, frame>>

ConductionEnergy(c, j, k) ==
    Query(c, [op |-> "conduction_energy", j |-> j, k |-> k, pre |-> self,
              out |-> cond_band(self, j, k)])

ValenceEnergy(c, j, k) ==
    Query(c, [op |-> "valence_energy", j |-> j, k |-> k, pre |-> self,
              out |-> val_band(self, j, k)])

Dipole(c, j1, j2, k) ==
    Query(c, [op |-> "dipole", j1 |-> j1, j2 |-> j2, k |-> k, pre |-> self,
              out |-> dipole(self, j1, j2, k)])

OpticalTransition(c, k, j1, j2) ==
    Query(c, [op |-> "optical_transition", j1 |-> j1, j2 |-> j2, k |-> k, pre |-> self,
              out |-> get_optical_transition_data(self, k, j1, j2)])

DensityOfStates(c, energy, carriers) ==
    Query(c, [op |-> "density_of_states", energy |-> energy, carriers |-> carriers,
              pre |-> self, out |-> dos(self, energy, carriers)])

DosSingleSubband(c, energy, meff, dim, units) ==
    Query(c, [op |-> "dos_single_subband", energy |-> energy, meff |-> meff,
              dim |-> dim, units |-> units,
              out |-> dos_single_subband(energy, meff, dim, units)])

\* get_Fermi_levels run by one caller without interruption
FermiLevels(c, tempr, dens) ==
    /\ pc[c] = "idle"
    /\ LET r == get_Fermi_levels(self, tempr, dens, integ[tempr] + 1)
       IN /\ self' = r.s
          /\ integ' = IF r.ran THEN [integ EXCEPT ![tempr] = @ + 1] ELSE integ
          /\ ret' = [ret EXCEPT ![c] =
                       [op |-> "fermi_levels", tempr |-> tempr, dens |-> dens,
                        hit |-> ~r.ran, pre |-> self, out |-> r.out]]
    /\ queried' = queried \cup {tempr}
    /\ pc' = [pc EXCEPT ![c] = "done"]
    /\ UNCHANGED <<kwargs, raced, frame>>

\* the caller takes the result and goes on
Resume(c) ==
    /\ pc[c] = "done"
    /\ pc' = [pc EXCEPT ![c] = "idle"]
    /\ ret' = [ret EXCEPT ![c] = NoCall]
    /\ frame' = [frame EXCEPT ![c] = IdleFrame]
    /\ UNCHANGED <<self, kwargs, integ, queried, raced>>

Next ==
    \/ \E j \in BandIdx, k \in KArgs : ConductionEnergy(MainCaller, j, k)
    \/ \E j \in BandIdx, k \in KArgs : ValenceEnergy(MainCaller, j, k)
    \/ \E j1 \in BandIdx, j2 \in BandIdx, k \in KArgs : Dipole(MainCaller, j1, j2, k)
    \/ \E j1 \in BandIdx, j2 \in BandIdx, k \in KArgs : OpticalTransition(MainCaller, k, j1, j2)
    \/ \E e \in EnergyArrays, s \in Selectors : DensityOfStates(MainCaller, e, s)
    \/ \E t \in Temps, d \in Dens : FermiLevels(MainCaller, t, d)
    \/ Resume(MainCaller)

Spec == Init /\ [][Next]_vars

----------------------------------------------------------------------------
(* The DOS kernel on its own: a default model, and callers of the kernel *)

InitKernel == InitWith("BandStructure3D", "GaAs", <<0>>, <<0, 0>>)

NextKernel ==
    \/ \E e \in KernelEnergies, m \in 1..MaxMeff, dim \in Dims, u \in Units :
          DosSingleSubband(MainCaller, e, m, dim, u)
    \/ Resume(MainCaller)

SpecKernel == InitKernel /\ [][NextKernel]_vars

----------------------------------------------------------------------------
(* get_Fermi_levels called by several callers without synchronization: each *)
(* caller runs the statements one at a time, and the callers interleave.    *)

InCall == {"L195", "L200", "L201", "L210", "L219", "L220"}

FermiRet(c, out) ==
    [op |-> "fermi_levels", tempr |-> frame[c].tempr, dens |-> frame[c].dens,
     hit |-> frame[c].hit, out |-> out]

\* the call begins
CallFermi(c, tempr, dens) ==
    /\ pc[c] = "idle"
    /\ pc' = [pc EXCEPT ![c] = "L195"]
    /\ frame' = [frame EXCEPT ![c] = [tempr |-> tempr, dens |-> dens, run |-> 0,
                                      hit |-> FALSE, ef_h |-> NoLevel]]
    /\ queried' = queried \cup {tempr}
    /\ raced' = (raced \/ \E o \in Callers \ {c} : pc[o] \in InCall)
    /\ UNCHANGED <<self, kwargs, ret, integ>>

\* line 195: if tempr not in self.ef
CheckCached(c) ==
    /\ pc[c] = "L195"
    /\ IF NotCached(self, frame[c].tempr)
       THEN /\ pc' = [pc EXCEPT ![c] = "L200"]
            /\ frame' = frame
       ELSE /\ pc' = [pc EXCEPT ![c] = "L219"]
            /\ frame' = [frame EXCEPT ![c].hit = TRUE]
    /\ UNCHANGED <<self, kwargs, ret, integ, queried, raced>>

\* lines 197-200: self.ef[tempr] = {}; the integration step starts
InsertEntry(c) ==
    /\ pc[c] = "L200"
    /\ self' = InsertEmpty(self, frame[c].tempr)
    /\ integ' = [integ EXCEPT ![frame[c].tempr] = @ + 1]
    /\ frame' = [frame EXCEPT ![c].run = integ[frame[c].tempr] + 1]
    /\ pc' = [pc EXCEPT ![c] = "L201"]
    /\ UNCHANGED <<kwargs, ret, queried, raced>>

\* lines 201-208
BuildElec(c) ==
    /\ pc[c] = "L201"
    /\ LET fe == ElecInterp(self, frame[c].tempr, frame[c].run)
       IN IF fe.kind = "raise"
          THEN /\ ret' = [ret EXCEPT ![c] = FermiRet(c, fe)]
               /\ pc' = [pc EXCEPT ![c] = "done"]
               /\ self' = self
          ELSE /\ self' = StoreInterp(self, frame[c].tempr, "elec", fe.val)
               /\ pc' = [pc EXCEPT ![c] = "L210"]
               /\ ret' = ret
    /\ UNCHANGED <<kwargs, integ, queried, raced, frame>>

\* lines 210-217
BuildHoles(c) ==
    /\ pc[c] = "L210"
    /\ LET fh == HolesInterp(self, frame[c].tempr, frame[c].run)
       IN IF fh.kind = "raise"
          THEN /\ ret' = [ret EXCEPT ![c] = FermiRet(c, fh)]
               /\ pc' = [pc EXCEPT ![c] = "done"]
               /\ self' = self
          ELSE /\ self' = StoreInterp(self, frame[c].tempr, "holes", fh.val)
               /\ pc' = [pc EXCEPT ![c] = "L219"]
               /\ ret' = ret
    /\ UNCHANGED <<kwargs, integ, queried, raced, frame>>

\* line 219: the entry is read for its hole interpolant
ReadHoles(c) ==
    /\ pc[c] = "L219"
    /\ LET h == EvalHoles(self, frame[c].tempr, frame[c].dens)
       IN IF h.kind = "raise"
          THEN /\ ret' = [ret EXCEPT ![c] = FermiRet(c, h)]
               /\ pc' = [pc EXCEPT ![c] = "done"]
               /\ frame' = frame
          ELSE /\ frame' = [frame EXCEPT ![c].ef_h = h.val]
               /\ pc' = [pc EXCEPT ![c] = "L220"]
               /\ ret' = ret
    /\ UNCHANGED <<self, kwargs, integ, queried, raced>>

\* lines 220-222: the entry is read again for its electron interpolant, and
\* the call returns
Evaluate(c) ==
    /\ pc[c] = "L220"
    /\ LET e == EvalElec(self, frame[c].tempr, frame[c].dens)
       IN ret' = [ret EXCEPT ![c] =
                    FermiRet(c, IF e.kind = "raise" THEN e
                                ELSE ShiftBack(self, frame[c].ef_h, e.val))]
    /\ pc' = [pc EXCEPT ![c] = "done"]
    /\ UNCHANGED <<self, kwargs, integ, queried, raced, frame>>

InitConc ==
    \E cls \in Classes, mat \in Materials, nv \in 1..MaxEdgesV :
        InitWith(cls, mat, EdgesUp(1, 0), EdgesDown(nv, 0))

NextConc ==
    \E c \in Callers :
        \/ \E t \in Temps : CallFermi(c, t, DensUnit)
        \/ CheckCached(c)
        \/ InsertEntry(c)
        \/ BuildElec(c)
        \/ BuildHoles(c)
        \/ ReadHoles(c)
        \/ Evaluate(c)
        \/ Resume(c)

SpecConc == InitConc /\ [][NextConc]_vars

----------------------------------------------------------------------------
(* Properties *)

R == ret[MainCaller]

Bulk == self.cls = "BandStructure3D"
QW   == self.cls = "BandStructureQW"
Complete(entry) == entry.present /\ HasKey(entry, "elec") /\ HasKey(entry, "holes")

\* C1.  Fermi-level caching: the integration step has run exactly once for
\* every temperature queried and never for another; the cache holds an entry
\* exactly for the temperatures queried; every stored interpolant is the one
\* the first integration at its temperature built; and a call that finds
\* its temperature cached leaves the cache as it was and evaluates the
\* stored interpolants.
C1_IntegrationOncePerTemperature ==
    /\ \A t \in Temps : integ[t] = IF t \in queried THEN 1 ELSE 0
    /\ \A t \in Temps : self.ef[t].present <=> t \in queried
    /\ \A t \in Temps, key \in {"elec", "holes"} :
          self.ef[t][key].id \in {0, InterpId(t, 1, key)}
    /\ (R.op = "fermi_levels" /\ R.hit) =>
          /\ self = R.pre
          /\ R.out.kind = "ok" =>
                R.out.val.used = <<InterpId(R.tempr, 1, "holes"), InterpId(R.tempr, 1, "elec")>>

\* a call at an already cached temperature returned, with two temperatures cached
C1_Witness ==
    /\ R.op = "fermi_levels" /\ R.hit /\ R.out.kind = "ok" /\ R.dens # 0
    /\ Cardinality(queried) >= 2
    /\ \A t \in queried : Complete(self.ef[t])

\* C2.  On a bulk model conduction_energy with a band index at or above the
\* number of conduction edges supplied raises the band-index error, for
\* every k, and leaves the model (edges and cache) as it was.
C2_ConductionIndexError ==
    (R.op = "conduction_energy" /\ Bulk /\ R.j >= Len(kwargs.edges_c)) =>
        /\ R.out = Raise(BandIndexError)
        /\ self = R.pre

\* the highest index asked of a model with one conduction edge and a cached
\* temperature
C2_Witness ==
    /\ R.op = "conduction_energy" /\ Bulk /\ R.j = MaxIdx /\ Len(kwargs.edges_c) = 1
    /\ R.out.kind = "raise"
    /\ \E t \in Temps : self.ef[t].present

IsIndexError(out) ==
    out.kind = "raise" /\ out.exc \in {BandIndexError, "IndexError"}

\* C3, for valence_energy and conduction_energy.  On a quantum-well model
\* valence_energy fails with the index error exactly when the index is at
\* or above the number of valence edges, and conduction_energy exactly when
\* it is at or above the number of conduction edges.
C3_QWIndexContract ==
    QW =>
        /\ R.op = "valence_energy" =>
              (IsIndexError(R.out) <=> R.j >= Len(kwargs.edges_v))
        /\ R.op = "conduction_energy" =>
              (IsIndexError(R.out) <=> R.j >= Len(kwargs.edges_c))

\* C4.  On a bulk model valence_energy with a band index above 2 ends in an
\* error, also when the index is below the number of valence edges.
C4_BulkValenceAboveTwoRaises ==
    (R.op = "valence_energy" /\ Bulk /\ R.j > 2) => R.out.kind = "raise"

\* C5, for bulk models of the default material.  The stored conduction edges
\* are the supplied ones plus the gap, the stored valence edges are the
\* supplied ones, and for every valid index j conduction_energy(j, 0) is the
\* supplied conduction edge plus the gap and valence_energy(j, 0) is the
\* supplied valence edge.
C5_EdgesOffsetByGap ==
    (Bulk /\ self.mat = "GaAs") =>
        /\ self.edges_c = [i \in 1..Len(kwargs.edges_c) |-> kwargs.edges_c[i] + Mat_Eg(self.mat)]
        /\ self.edges_v = kwargs.edges_v
        /\ (R.op = "conduction_energy" /\ R.j < Len(kwargs.edges_c) /\ R.k = Scalar(0)) =>
              R.out = Ok(<<kwargs.edges_c[R.j + 1] + Mat_Eg(self.mat)>>)
        /\ (R.op = "valence_energy" /\ R.j < Len(kwargs.edges_v) /\ R.k = Scalar(0)) =>
              R.out = Ok(<<kwargs.edges_v[R.j + 1]>>)

\* C6.  At every cached temperature and for any two densities d1 <= d2 the
\* electron Fermi level returned for d2 is >= the one for d1 and the hole
\* Fermi level returned for d2 is <= the one for d1.
C6_FermiLevelsMonotone ==
    \A t \in Temps :
        Complete(self.ef[t]) =>
            \A d1 \in Dens, d2 \in Dens :
                d1 <= d2 =>
                    LET r1 == EvalFermi(self, t, d1).val
                        r2 == EvalFermi(self, t, d2).val
                    IN FGeq(r2.elec, r1.elec) /\ FGeq(r1.holes, r2.holes)

RECURSIVE HolesKernelSum(_, _, _)
\* the kernel at energy e1 summed over the valence subbands j..n_sb_h, each
\* with its own mass
HolesKernelSum(s, e1, j) ==
    IF j > s.n_sb_h THEN Fin(0)
    ELSE FAdd(dos_kernel(e1 + (s.edges_v[j] \div ConstE), GaAs_mh[j], s.dim, "eV"),
              HolesKernelSum(s, e1, j + 1))

\* C7.  density_of_states with any selector other than "electrons" returns
\* what it returns for "holes": on a model whose material has a mass for
\* every valence subband, the kernel summed over the valence subbands, each
\* with its own mass; and it raises no error about the selector.
C7_OtherSelectorsAreHoles ==
    (R.op = "density_of_states" /\ R.carriers # "electrons") =>
        /\ R.out = dos(self, R.energy, "holes")
        /\ R.out.kind = "raise" => R.out.exc \in {"IndexError", "TypeError"}
        /\ (self.mat = "GaAs" /\ self.n_sb_h <= Len(GaAs_mh)) =>
              R.out = Ok([i \in 1..Len(R.energy) |-> HolesKernelSum(self, R.energy[i], 1)])

\* an unrecognized selector on a model with two valence subbands gave a
\* density of states that is not zero
C7_Witness ==
    /\ R.op = "density_of_states" /\ R.carriers = "hole"
    /\ self.n_sb_h = 2 /\ R.out.kind = "ok"
    /\ \E i \in 1..Len(R.energy) : R.out.val[i].v > 0

\* C10.  Every temperature that is a key of the cache maps to an entry that
\* holds both the electron and the hole interpolant.
C10_CacheEntriesComplete ==
    \A t \in Temps : self.ef[t].present => Complete(self.ef[t])

\* C8.  For every dimension 1, 2, 3 and every mass the single-subband DOS
\* is exactly 0 at every negative energy and finite at energy 0.
C8_KernelSignGate ==
    R.op = "dos_single_subband" =>
        \A i \in 1..Len(R.energy) :
            /\ R.energy[i] < 0 => R.out[i] = Fin(0)
            /\ R.energy[i] = 0 => IsFinite(R.out[i])

\* the 1-D kernel at the band edge, where the power term is infinite, and
\* below it
C8_Witness ==
    /\ R.op = "dos_single_subband" /\ R.dim = 1 /\ R.energy = <<0, 0 - 1>>
    /\ R.out[1] = Fin(MaxFloat) /\ R.out[2] = Fin(0)

HitIncomplete(c) ==
    ret[c].op = "fermi_levels" /\ ret[c].hit /\ ret[c].out.kind = "raise"

\* C9.  A caller finds its temperature in the cache without both
\* interpolants stored, or the integration runs twice for one temperature,
\* only when two calls of get_Fermi_levels overlapped: with every call run to
\* its end before the next begins, neither happens.
C9_OnlyOverlappingCallsSeeIncompleteEntry ==
    ((\E c \in Callers : HitIncomplete(c)) \/ (\E t \in Temps : integ[t] > 1)) => raced

\* on a model whose entries can be completed, a caller found the key of an
\* entry another caller was still building
C9_Witness ==
    /\ raced /\ self.mat = "GaAs" /\ self.n_sb_h <= Len(GaAs_mh)
    /\ \E c \in Callers : HitIncomplete(c) /\ ret[c].out.exc = "KeyError: holes"

====
